---- MODULE Spec2Model ----
(***************************************************************************)
(* Model of the Markdown front end:                                        *)
(*   - markdown/parse/token.rs   : Tokenizer (Iterator::next)              *)
(*   - markdown/parse/heading.rs : heading block rule (open / consume)     *)
(* The source text is a sequence of UTF-8 bytes; offsets are byte offsets  *)
(* counted from 0 as in the code (byte at offset p is src[p + 1]).         *)
(***************************************************************************)
EXTENDS Integers, Sequences, FiniteSets, TLC

VARIABLES source, start0, start, prev, calls, steps, tokens, ret, ended,
          parent, la, link, panicked, node, cret, nconsume

vars == <<source, start0, start, prev, calls, steps, tokens, ret, ended,
          parent, la, link, panicked, node, cret, nconsume>>

(***************************************************************************)
(* Bounds of the model.                                                    *)
(***************************************************************************)
\* longest enumerated source, in characters
MaxLen == 3
\* longest enumerated line of '#' characters followed by a space
MaxHashes == 8
\* most consume calls made on one heading node
MaxConsume == 2

(***************************************************************************)
(* Bytes.  WHITESPACE_CHARS and NUMBER_CHARS are the code's tables; the    *)
(* other codes are the string literals next() matches on.                  *)
(***************************************************************************)
CH_SPACE == 32
CH_TAB == 9
CH_NEWLINE == 10
CH_HASH == 35
CH_DASH == 45
CH_ASTERISK == 42
CH_PLUS == 43
CH_RIGHTCARET == 62
CH_DOT == 46
CH_PAREN == 41
CH_ZERO == 48
CH_NINE == 57

WHITESPACE_CHARS == {CH_SPACE, CH_TAB}
NUMBER_CHARS == CH_ZERO .. CH_NINE

\* Option<T>: None is the empty sequence, Some(x) a one-element sequence.
None == <<>>
Some(x) == <<x>>

(***************************************************************************)
(* usize.  Offsets are 64-bit unsigned and their arithmetic is taken modulo *)
(* 2^64.  A usize value is written as the integer of least magnitude that   *)
(* is congruent to it modulo 2^64: 0, 1, 2, ... stand for themselves and    *)
(* -1, -2, ... for usize::MAX, usize::MAX - 1, ...  In this notation the    *)
(* wrapped sum and difference are the integer sum and difference, and only  *)
(* the order and the overflow tests differ from those of the integers.  The *)
(* values the model handles lie within a few hundred of 0 or of 2^64.       *)
(***************************************************************************)
USIZE_MAX == -1

\* x < y and x <= y as usize values
ULess(x, y) == IF (x >= 0) <=> (y >= 0) THEN x < y ELSE x >= 0
ULeq(x, y) == x = y \/ ULess(x, y)

\* x + y and x - y as a build without overflow checks computes them
WrappingAdd(x, y) == x + y
WrappingSub(x, y) == x - y

\* x + y exceeds usize::MAX; x - y falls below 0
AddOverflows(x, y) == ULess(WrappingAdd(x, y), x)
SubOverflows(x, y) == ULess(x, y)

\* The outcome of a call or of an expression: the value it gives, or a
\* panic.  An overflowing + or - panics in a build with overflow checks
\* (debug) and wraps in a build without them (release).
Returned(v) == [panic |-> FALSE, value |-> v]
Panic == [panic |-> TRUE, value |-> None]

\* UTF-8 continuation bytes (0b10xxxxxx) are never character boundaries.
IsContinuation(b) == b >= 128 /\ b <= 191

\* str::is_char_boundary(i)
IsCharBoundary(src, i) ==
    \/ i = 0
    \/ i = Len(src)
    \/ (ULess(i, Len(src)) /\ ~IsContinuation(src[i + 1]))

\* str::get(p..q): the one-byte string at p, or None when the range is
\* reversed, out of bounds or does not lie on character boundaries.
GetRange(src, p, q) ==
    IF /\ ULeq(p, q) /\ ULeq(q, Len(src))
       /\ IsCharBoundary(src, p) /\ IsCharBoundary(src, q)
    THEN Some(src[p + 1])
    ELSE None

\* self.source.get(p..p + 1).  p + 1 is computed first, on usize: at
\* p = usize::MAX it overflows, so a debug build panics and a release build
\* looks up the range usize::MAX .. 0, which is reversed and gives None.
GetChar(src, p) ==
    IF AddOverflows(p, 1)
    THEN { Panic, Returned(GetRange(src, p, WrappingAdd(p, 1))) }
    ELSE { Returned(GetRange(src, p, WrappingAdd(p, 1))) }

\* A token: the variant name and its Slice (start, end).
Token(k, s, e) == [kind |-> k, start |-> s, end |-> e]

\* One evaluation of the loop body: (state, result) and the character at p
\* give (new_state, new_p) and the possibly reassigned result.
Tr(st, np, res) == [state |-> st, p |-> np, result |-> res]

StepWhitespace(s0, p, c, result) ==
    IF c # None /\ c[1] \in WHITESPACE_CHARS
    THEN Tr("Whitespace", p + 1, result)
    ELSE Tr("Done", p, Some(Token("Whitespace", s0, p)))

\* StepPlaintext with the terminator skipped: the cursor moves past the
\* whitespace that closes the token while the slice still ends before it.
StepPlaintext_SkipTerminator(s0, p, c, result) ==
    IF c # None /\ c[1] \in WHITESPACE_CHARS
    THEN Tr("Done", p + 1, Some(Token("Plaintext", s0, p)))
    ELSE IF c = Some(CH_NEWLINE)
    THEN Tr("Done", p, Some(Token("Plaintext", s0, p)))
    ELSE IF c # None
    THEN Tr("Plaintext", p + 1, result)
    ELSE Tr("Done", p, Some(Token("Plaintext", s0, p)))

StepPlaintext(s0, p, c, result) ==
    IF c # None /\ c[1] \in WHITESPACE_CHARS
    THEN Tr("Done", p, Some(Token("Plaintext", s0, p)))
    ELSE IF c = Some(CH_NEWLINE)
    THEN Tr("Done", p, Some(Token("Plaintext", s0, p)))
    ELSE IF c # None
    THEN Tr("Plaintext", p + 1, result)
    ELSE Tr("Done", p, Some(Token("Plaintext", s0, p)))

\* StepNumber with the slice of a NumParen closed before the ')'.
StepNumber_ParenExcluded(s0, p, c, result) ==
    IF c # None /\ c[1] \in NUMBER_CHARS
    THEN Tr("Number", p + 1, result)
    ELSE IF c = Some(CH_DOT)
    THEN Tr("Done", p + 1, Some(Token("NumDot", s0, p + 1)))
    ELSE IF c = Some(CH_PAREN)
    THEN Tr("Done", p, Some(Token("NumParen", s0, p)))
    ELSE Tr("Plaintext", p + 1, result)

StepNumber(s0, p, c, result) ==
    IF c # None /\ c[1] \in NUMBER_CHARS
    THEN Tr("Number", p + 1, result)
    ELSE IF c = Some(CH_DOT)
    THEN Tr("Done", p + 1, Some(Token("NumDot", s0, p + 1)))
    ELSE IF c = Some(CH_PAREN)
    THEN Tr("Done", p + 1, Some(Token("NumParen", s0, p + 1)))
    ELSE Tr("Plaintext", p + 1, result)

\* StepHash closing the token at once, without accumulating further '#'.
StepHash_NoMerge(s0, p, c, result) ==
    Tr("Done", p, Some(Token("Hash", s0, p)))

StepHash(s0, p, c, result) ==
    IF c = Some(CH_HASH)
    THEN Tr("Hash", p + 1, result)
    ELSE Tr("Done", p, Some(Token("Hash", s0, p)))

\* StepUnset returning a Dash without moving the cursor past it.
StepUnset_DashStalls(s0, p, c, result) ==
    IF c = Some(CH_DASH)
    THEN Tr("Done", p, Some(Token("Dash", s0, p + 1)))
    ELSE IF c = Some(CH_ASTERISK)
    THEN Tr("Done", p + 1, Some(Token("Asterisk", s0, p + 1)))
    ELSE IF c = Some(CH_PLUS)
    THEN Tr("Done", p + 1, Some(Token("Plus", s0, p + 1)))
    ELSE IF c # None /\ c[1] \in WHITESPACE_CHARS
    THEN Tr("Whitespace", p + 1, result)
    ELSE IF c # None /\ c[1] \in NUMBER_CHARS
    THEN Tr("Number", p + 1, result)
    ELSE IF c = Some(CH_NEWLINE)
    THEN Tr("Done", p + 1, Some(Token("Newline", s0, p + 1)))
    ELSE IF c = Some(CH_RIGHTCARET)
    THEN Tr("Done", p + 1, Some(Token("RightCaret", s0, p + 1)))
    ELSE IF c = Some(CH_HASH)
    THEN Tr("Hash", p + 1, Some(Token("Hash", s0, p + 1)))
    ELSE IF c # None
    THEN Tr("Plaintext", p + 1, result)
    ELSE Tr("Done", p, result)

\* StepUnset without the arm for '+', which then starts a Plaintext run.
StepUnset_PlusAsPlaintext(s0, p, c, result) ==
    IF c = Some(CH_DASH)
    THEN Tr("Done", p + 1, Some(Token("Dash", s0, p + 1)))
    ELSE IF c = Some(CH_ASTERISK)
    THEN Tr("Done", p + 1, Some(Token("Asterisk", s0, p + 1)))
    ELSE IF c # None /\ c[1] \in WHITESPACE_CHARS
    THEN Tr("Whitespace", p + 1, result)
    ELSE IF c # None /\ c[1] \in NUMBER_CHARS
    THEN Tr("Number", p + 1, result)
    ELSE IF c = Some(CH_NEWLINE)
    THEN Tr("Done", p + 1, Some(Token("Newline", s0, p + 1)))
    ELSE IF c = Some(CH_RIGHTCARET)
    THEN Tr("Done", p + 1, Some(Token("RightCaret", s0, p + 1)))
    ELSE IF c = Some(CH_HASH)
    THEN Tr("Hash", p + 1, Some(Token("Hash", s0, p + 1)))
    ELSE IF c # None
    THEN Tr("Plaintext", p + 1, result)
    ELSE Tr("Done", p, result)

\* StepUnset closing an empty Plaintext token when no character can be read.
StepUnset_EmptyToken(s0, p, c, result) ==
    IF c = Some(CH_DASH)
    THEN Tr("Done", p + 1, Some(Token("Dash", s0, p + 1)))
    ELSE IF c = Some(CH_ASTERISK)
    THEN Tr("Done", p + 1, Some(Token("Asterisk", s0, p + 1)))
    ELSE IF c = Some(CH_PLUS)
    THEN Tr("Done", p + 1, Some(Token("Plus", s0, p + 1)))
    ELSE IF c # None /\ c[1] \in WHITESPACE_CHARS
    THEN Tr("Whitespace", p + 1, result)
    ELSE IF c # None /\ c[1] \in NUMBER_CHARS
    THEN Tr("Number", p + 1, result)
    ELSE IF c = Some(CH_NEWLINE)
    THEN Tr("Done", p + 1, Some(Token("Newline", s0, p + 1)))
    ELSE IF c = Some(CH_RIGHTCARET)
    THEN Tr("Done", p + 1, Some(Token("RightCaret", s0, p + 1)))
    ELSE IF c = Some(CH_HASH)
    THEN Tr("Hash", p + 1, Some(Token("Hash", s0, p + 1)))
    ELSE IF c # None
    THEN Tr("Plaintext", p + 1, result)
    ELSE Tr("Done", p, Some(Token("Plaintext", s0, p)))

StepUnset(s0, p, c, result) ==
    IF c = Some(CH_DASH)
    THEN Tr("Done", p + 1, Some(Token("Dash", s0, p + 1)))
    ELSE IF c = Some(CH_ASTERISK)
    THEN Tr("Done", p + 1, Some(Token("Asterisk", s0, p + 1)))
    ELSE IF c = Some(CH_PLUS)
    THEN Tr("Done", p + 1, Some(Token("Plus", s0, p + 1)))
    ELSE IF c # None /\ c[1] \in WHITESPACE_CHARS
    THEN Tr("Whitespace", p + 1, result)
    ELSE IF c # None /\ c[1] \in NUMBER_CHARS
    THEN Tr("Number", p + 1, result)
    ELSE IF c = Some(CH_NEWLINE)
    THEN Tr("Done", p + 1, Some(Token("Newline", s0, p + 1)))
    ELSE IF c = Some(CH_RIGHTCARET)
    THEN Tr("Done", p + 1, Some(Token("RightCaret", s0, p + 1)))
    ELSE IF c = Some(CH_HASH)
    THEN Tr("Hash", p + 1, Some(Token("Hash", s0, p + 1)))
    ELSE IF c # None
    THEN Tr("Plaintext", p + 1, result)
    ELSE Tr("Done", p, result)

\* The match of next(): dispatch on (state, c), c the character that
\* self.source.get(p..p + 1) returned.
Step(s0, state, p, c, result) ==
    CASE state = "Whitespace" -> StepWhitespace(s0, p, c, result)
      [] state = "Plaintext" -> StepPlaintext(s0, p, c, result)
      [] state = "Number" -> StepNumber(s0, p, c, result)
      [] state = "Hash" -> StepHash(s0, p, c, result)
      [] state = "Unset" -> StepUnset(s0, p, c, result)
      [] OTHER -> Tr("Done", p, result)

\* The while loop of next(): iterate Step until the state is Done; trace
\* lists the (state, p) each evaluation of the loop body started from.  The
\* outcomes are the ways the call can end: it returns result with the cursor
\* set to p (self.start = p), or it panics in the lookup, and then nothing
\* is returned and the cursor self.start is still s0.
RECURSIVE Run(_, _, _, _, _, _)
Run(src, s0, state, p, result, trace) ==
    IF state = "Done"
    THEN { [panic |-> FALSE, p |-> p, result |-> result, trace |-> trace] }
    ELSE LET tr == Append(trace, [state |-> state, p |-> p]) IN
         UNION { IF o.panic
                 THEN { [panic |-> TRUE, p |-> s0, result |-> None, trace |-> tr] }
                 ELSE LET t == Step(s0, state, p, o.value, result)
                      IN Run(src, s0, t.state, t.p, t.result, tr)
                 : o \in GetChar(src, p) }

\* Tokenizer::next on a tokenizer whose cursor is s0: for each outcome the
\* new cursor, the returned Option<Token> and the loop iterations.
TokenizerNext(src, s0) == Run(src, s0, "Unset", s0, None, <<>>)

\* Tokenizer::new(off, src) iterated to end-of-sequence: for each outcome
\* the tokens a fresh instance constructed at off returns, in order, and
\* whether the scan ended in a panic instead of end-of-sequence.
RECURSIVE ScanFrom(_, _)
ScanFrom(src, off) ==
    UNION { IF r.panic
            THEN { [tokens |-> <<>>, panic |-> TRUE] }
            ELSE IF r.result = None
            THEN { [tokens |-> <<>>, panic |-> FALSE] }
            ELSE { [tokens |-> <<r.result[1]>> \o s.tokens, panic |-> s.panic]
                   : s \in ScanFrom(src, r.p) }
            : r \in TokenizerNext(src, off) }

(***************************************************************************)
(* Heading block rule.                                                     *)
(***************************************************************************)
HEADING_MAX_LEVEL == 6

\* Kind::Heading(level)
KindHeading(level) == [name |-> "Heading", level |-> level]

\* Node::new(kind, start): a container node that is still open.
NodeNew(kind, s) == [kind |-> kind, start |-> s, end |-> None]

\* The node the driver opens blocks under; open never reads it.
ParentNode == NodeNew([name |-> "Document", level |-> 0], 0)

\* The Link of a heading opened on the Hash slice (s, e):
\* (Node::new(Kind::Heading(end - start), *start), *end).
HeadingLink(s, e) ==
    Some([node |-> NodeNew(KindHeading(WrappingSub(e, s)), s), offset |-> e])

\* What open returns once a is a Hash token over (s, e) and b a Whitespace
\* token and end - start has been computed: the guard (end - start) <= 6 on
\* the (possibly wrapped) difference, then the Link or None.
OpenOnHash(s, e) ==
    IF ULeq(WrappingSub(e, s), HEADING_MAX_LEVEL)
    THEN Returned(HeadingLink(s, e))
    ELSE Returned(None)

\* heading::open with the level test written < instead of <=.
open_LevelBelowMax(parent_node, a, b, c) ==
    IF /\ a # None /\ a[1].kind = "Hash"
       /\ b # None /\ b[1].kind = "Whitespace"
    THEN LET r == IF ULess(WrappingSub(a[1].end, a[1].start), HEADING_MAX_LEVEL)
                  THEN Returned(HeadingLink(a[1].start, a[1].end))
                  ELSE Returned(None)
         IN IF SubOverflows(a[1].end, a[1].start) THEN { Panic, r } ELSE { r }
    ELSE { Returned(None) }

\* heading::open matching only when a third lookahead token is present.
open_NeedsThird(parent_node, a, b, c) ==
    IF /\ a # None /\ a[1].kind = "Hash"
       /\ b # None /\ b[1].kind = "Whitespace"
       /\ c # None
    THEN IF SubOverflows(a[1].end, a[1].start)
         THEN { Panic, OpenOnHash(a[1].start, a[1].end) }
         ELSE { OpenOnHash(a[1].start, a[1].end) }
    ELSE { Returned(None) }

\* heading::open: the outcomes the builds of the program produce.  The
\* guard (end - start) <= 6 is evaluated, on usize, only once a is a Hash and
\* b a Whitespace token.  When end < start the subtraction overflows: a build
\* with overflow checks (debug) panics, and a build without them (release)
\* goes on with the difference wrapped to 2^64 - (start - end).  That exceeds
\* 6, and open returns None, unless start - end >= 2^64 - 6: then the wrapped
\* difference is 1 .. 6 and open returns a heading of that level, as for
\* Hash((usize::MAX, 0)), which gives Heading(1) and the offset 0.
open(parent_node, a, b, c) ==
    IF /\ a # None /\ a[1].kind = "Hash"
       /\ b # None /\ b[1].kind = "Whitespace"
    THEN IF SubOverflows(a[1].end, a[1].start)
         THEN { Panic, OpenOnHash(a[1].start, a[1].end) }
         ELSE { OpenOnHash(a[1].start, a[1].end) }
    ELSE { Returned(None) }

\* heading::consume leaving the node untouched when the leaf consumer
\* reports nothing.
consume_OpenOnNone(n, st, leaf) ==
    IF leaf # None
    THEN [node |-> [n EXCEPT !.end = Some(leaf[1])], ret |-> Some(leaf[1])]
    ELSE [node |-> n, ret |-> None]

\* heading::consume closing the node at start whatever the leaf consumer
\* returned.
consume_EndAtStart(n, st, leaf) ==
    IF leaf # None
    THEN [node |-> [n EXCEPT !.end = Some(st)], ret |-> Some(leaf[1])]
    ELSE [node |-> [n EXCEPT !.end = Some(st)], ret |-> None]

\* heading::consume, given the outcome leaf of leaf::consume(node, start,
\* source): the node afterwards and the value returned.
consume(n, st, leaf) ==
    IF leaf # None
    THEN [node |-> [n EXCEPT !.end = Some(leaf[1])], ret |-> Some(leaf[1])]
    ELSE [node |-> [n EXCEPT !.end = Some(st)], ret |-> None]

\* leaf::consume is external: it reports nothing consumable, or a position
\* from st up to the end of the source.
LeafOutcomes(src, st) == { None } \cup { Some(q) : q \in st .. Len(src) }

\* The i-th lookahead slot over the tokens scanned so far.
Lookahead(toks, i) == IF i <= Len(toks) THEN Some(toks[i]) ELSE None

(***************************************************************************)
(* Inputs.                                                                 *)
(***************************************************************************)
\* The characters the enumerated sources are built from: one of each class
\* next() distinguishes, and one two-byte character (U+00E9, C3 A9).
Chars ==
    { <<CH_SPACE>>, <<CH_TAB>>, <<CH_NEWLINE>>, <<CH_HASH>>, <<CH_DASH>>,
      <<CH_ASTERISK>>, <<CH_PLUS>>, <<CH_RIGHTCARET>>, <<49>>, <<CH_DOT>>,
      <<CH_PAREN>>, <<97>>, <<195, 169>> }

RECURSIVE Strings(_)
Strings(n) ==
    IF n = 0 THEN { <<>> }
    ELSE LET S == Strings(n - 1) IN S \cup { s \o c : s \in S, c \in Chars }

RECURSIVE Hashes(_)
Hashes(n) == IF n = 0 THEN <<>> ELSE <<CH_HASH>> \o Hashes(n - 1)

\* A line of exactly n '#' characters followed by a space.
HashLine(n) == Hashes(n) \o <<CH_SPACE>>

HashLines == { HashLine(n) : n \in 1 .. MaxHashes }

\* The sources of the unit tests of token.rs.
TestPlaintext == <<72, 101, 108, 108, 111, 44, 32, 87, 111, 114, 108, 100, 33>>
TestHash == <<35, 35, 35, 32, 72, 101, 97, 100, 101, 114, 32, 84, 101, 120, 116>>
TestNumbers == <<49, 46, 32, 73, 116, 101, 109, 10, 49, 50, 46, 32, 73, 116, 101, 109>>

TestSources == { TestPlaintext, TestHash, TestNumbers }

Sources == Strings(MaxLen) \cup HashLines \cup TestSources

\* The start offsets a Tokenizer is constructed at: every offset into the
\* source, and usize::MAX, which Tokenizer::new accepts like any other usize.
StartOffsets(src) == (0 .. Len(src)) \cup { USIZE_MAX }

(***************************************************************************)
(* State machine.  A panic ends the program: no action follows it.         *)
(***************************************************************************)
\* Tokenizer::new(start, source); nothing scanned, no block opened.
Init ==
    /\ source \in Sources
    /\ start0 \in StartOffsets(source)
    /\ start = start0
    /\ prev = start0
    /\ calls = 0
    /\ steps = 0
    /\ tokens = <<>>
    /\ ret = None
    /\ ended = FALSE
    /\ parent = ParentNode
    /\ la = <<>>
    /\ link = None
    /\ panicked = FALSE
    /\ node = None
    /\ cret = <<>>
    /\ nconsume = 0

\* One call of Tokenizer::next by the consumer of the iterator, which
\* collects the tokens and stops at the first None.
NextToken ==
    /\ ~ended
    /\ ~panicked
    /\ \E r \in TokenizerNext(source, start) :
        /\ start' = r.p
        /\ prev' = start
        /\ calls' = calls + 1
        /\ steps' = Len(r.trace)
        /\ ret' = r.result
        /\ tokens' = IF r.result = None THEN tokens ELSE Append(tokens, r.result[1])
        /\ ended' = (~r.panic /\ r.result = None)
        /\ panicked' = r.panic
    /\ UNCHANGED <<source, start0, parent, la, link, node, cret, nconsume>>

\* The driver offers the rule the first three tokens of the scan as
\* lookahead (None for a slot past the end of the sequence) and keeps the
\* node of a successful open.
HeadingOpen ==
    /\ la = <<>>
    /\ ~panicked
    /\ Len(tokens) >= 3 \/ ended
    /\ LET a == Lookahead(tokens, 1)
           b == Lookahead(tokens, 2)
           c == Lookahead(tokens, 3)
       IN \E o \in open(parent, a, b, c) :
            /\ la' = <<a, b, c>>
            /\ panicked' = o.panic
            /\ link' = o.value
            /\ node' = IF o.value = None THEN None ELSE Some(o.value[1].node)
    /\ UNCHANGED <<source, start0, start, prev, calls, steps, tokens, ret, ended,
                   parent, cret, nconsume>>

\* One call of heading consume on the opened node, at any offset of the
\* source and for any outcome of the leaf consumer.
HeadingConsume ==
    /\ node # None
    /\ ~panicked
    /\ nconsume < MaxConsume
    /\ \E st \in 0 .. Len(source) :
         \E leaf \in LeafOutcomes(source, st) :
           LET r == consume(node[1], st, leaf) IN
             /\ node' = Some(r.node)
             /\ cret' = <<st, leaf, r.ret>>
    /\ nconsume' = nconsume + 1
    /\ UNCHANGED <<source, start0, start, prev, calls, steps, tokens, ret, ended,
                   parent, la, link, panicked>>

Next == NextToken \/ HeadingOpen \/ HeadingConsume

Spec == Init /\ [][Next]_vars

(***************************************************************************)
(* The heading rule on arbitrary lookahead: open is a function of the      *)
(* three slots alone, so it is applied to tokens that need not come from   *)
(* the tokenizer (any variant, any slice, a few with end < start).         *)
(***************************************************************************)
TokenKinds ==
    { "RightCaret", "Hash", "Dash", "Asterisk", "Plus", "NumDot", "NumParen",
      "Plaintext", "Whitespace", "Newline" }

\* First slot: every variant over slices of length 0 .. MaxHashes; over the
\* pairs (1, 0), (2, 0), (2, 1), whose end lies before their start; over
\* pairs whose start lies within 7 of usize::MAX and whose end is 0 or 5,
\* where end - start wraps to 1 .. 12; and over (usize::MAX - 3, usize::MAX).
SlotA ==
    { None } \cup
    { Some(Token(k, s, s + n)) : k \in TokenKinds, s \in 0 .. 1, n \in 0 .. MaxHashes }
    \cup { Some(Token(k, 1, 0)) : k \in TokenKinds }
    \cup { Some(Token(k, 2, e)) : k \in TokenKinds, e \in 0 .. 1 }
    \cup { Some(Token(k, USIZE_MAX - d, e)) :
             k \in TokenKinds, d \in { 0, 5, 6 }, e \in { 0, 5 } }
    \cup { Some(Token(k, USIZE_MAX - 3, USIZE_MAX)) : k \in TokenKinds }

\* Second slot: every variant over the slices within [0, 1].
SlotB ==
    { None } \cup
    { Some(Token(k, s, e)) : k \in TokenKinds, s \in 0 .. 1, e \in 1 .. 1 }
    \cup { Some(Token(k, 0, 0)) : k \in TokenKinds }

\* Third slot: absent, or any variant.
SlotC == { None } \cup { Some(Token(k, 2, 3)) : k \in TokenKinds }

InitOpen == Init /\ source = <<>> /\ start0 = 0

\* heading open called with any three lookahead slots.
HeadingOpenAny ==
    /\ la = <<>>
    /\ ~panicked
    /\ \E a \in SlotA, b \in SlotB, c \in SlotC :
         \E o \in open(parent, a, b, c) :
           /\ la' = <<a, b, c>>
           /\ panicked' = o.panic
           /\ link' = o.value
           /\ node' = IF o.value = None THEN None ELSE Some(o.value[1].node)
    /\ UNCHANGED <<source, start0, start, prev, calls, steps, tokens, ret, ended,
                   parent, cret, nconsume>>

NextOpen == HeadingOpenAny

SpecOpen == InitOpen /\ [][NextOpen]_vars

(***************************************************************************)
(* Helpers of the properties.                                              *)
(***************************************************************************)
RECURSIVE SumLengths(_)
SumLengths(toks) ==
    IF toks = <<>> THEN 0
    ELSE (Head(toks).end - Head(toks).start) + SumLengths(Tail(toks))

\* The offset just past the maximal run of decimal digits that starts at i.
RECURSIVE DigitRunEnd(_, _)
DigitRunEnd(src, i) ==
    IF i < Len(src) /\ src[i + 1] \in NUMBER_CHARS
    THEN DigitRunEnd(src, i + 1)
    ELSE i

\* The first offset at or after i that holds a space, tab or newline, or
\* the length of the source when there is none.
RECURSIVE PlaintextEnd(_, _)
PlaintextEnd(src, i) ==
    IF i < Len(src) /\ src[i + 1] \notin (WHITESPACE_CHARS \cup {CH_NEWLINE})
    THEN PlaintextEnd(src, i + 1)
    ELSE i

\* The last call of next() saw the end of the input while it was in one of
\* the accumulating states.
AccumulatingStates == {"Whitespace", "Plaintext", "Number", "Hash"}
InputEndedAccumulating ==
    /\ calls >= 1
    /\ \E r \in TokenizerNext(source, prev) :
         /\ ~r.panic
         /\ \E k \in 1 .. Len(r.trace) :
               /\ r.trace[k].state \in AccumulatingStates
               /\ ULeq(Len(source), r.trace[k].p)

(***************************************************************************)
(* Properties.                                                             *)
(***************************************************************************)
\* C1 (coverage): when a scan from offset 0 has reached end-of-sequence, the
\* first token starts at 0, the last token ends at len(source), and the
\* token lengths sum to len(source).
C1_Coverage ==
    (start0 = 0 /\ ended) =>
        /\ tokens # <<>> =>
              (tokens[1].start = 0 /\ tokens[Len(tokens)].end = Len(source))
        /\ SumLengths(tokens) = Len(source)

\* C2 (contiguity): the first token starts at the construction offset, each
\* token ends where the next one starts, and after a call that returned a
\* token the cursor is that token's end offset.
C2_Contiguity ==
    /\ tokens # <<>> => tokens[1].start = start0
    /\ \A i \in 1 .. Len(tokens) - 1 : tokens[i].end = tokens[i + 1].start
    /\ (calls >= 1 /\ ret # None) =>
          (start = ret[1].end /\ ret[1] = tokens[Len(tokens)])

C2_Witness ==
    /\ start0 > 0
    /\ Len(tokens) >= 3
    /\ \E i \in 1 .. Len(tokens) :
          tokens[i].kind = "Plaintext" /\ tokens[i].end < Len(source)

\* C3: the offset heading open returns with the node is the end offset of
\* the Whitespace token b.
C3_OpenReturnsWhitespaceEnd ==
    link # None => link[1].offset = la[2][1].end

\* C4 (heading level bound): a line of exactly n '#' and a space, scanned
\* from 0, gives the lookahead Hash(0,n), Whitespace(n,n+1), end; open
\* returns a Heading(n) node starting at 0 when n <= 6 and None when n >= 7.
C4_HeadingLevelBound ==
    \A n \in 1 .. MaxHashes :
        (source = HashLine(n) /\ start0 = 0 /\ la # <<>>) =>
            /\ la = << Some(Token("Hash", 0, n)),
                       Some(Token("Whitespace", n, n + 1)), None >>
            /\ n <= 6 => (/\ link # None
                          /\ link[1].node.kind = KindHeading(n)
                          /\ link[1].node.start = 0)
            /\ n >= 7 => link = None

C4_Witness ==
    /\ source = HashLine(6) /\ start0 = 0
    /\ link # None /\ link[1].node.kind = KindHeading(6)

\* C5 (single-line closure): once consume has been called on the opened
\* heading, its end offset is set, whatever the leaf consumer returned.
C5_ClosedAfterConsume ==
    nconsume >= 1 => (node # None /\ node[1].end # None)

C5_Witness ==
    /\ nconsume = 1
    /\ cret[2] = None
    /\ node[1].end # None

\* C6: consume mirrors the leaf consumer: on Some(p) the node ends at p and
\* p is returned; on None the node ends at the original start and None is
\* returned.
C6_ConsumeMirrorsLeaf ==
    nconsume >= 1 =>
        LET st == cret[1]
            leaf == cret[2]
            r == cret[3]
        IN /\ leaf # None => (node[1].end = Some(leaf[1]) /\ r = Some(leaf[1]))
           /\ leaf = None => (node[1].end = Some(st) /\ r = None)
           /\ (r # None) <=> (leaf # None)
           /\ r # None => node[1].end = r

C6_Witness ==
    /\ nconsume >= 1
    /\ cret[2] # None /\ cret[2][1] > cret[1]
    /\ cret[3] = cret[2]

\* C7 (number markers): when the last call started at a digit and the digit
\* run is followed by '.' (or ')'), it returned NumDot (or NumParen) from the
\* first digit to one past that character and left the cursor there.
C7_NumberMarkers ==
    (calls >= 1 /\ ULess(prev, Len(source)) /\ source[prev + 1] \in NUMBER_CHARS) =>
        LET e == DigitRunEnd(source, prev) IN
        /\ (e < Len(source) /\ source[e + 1] = CH_DOT) =>
              (ret = Some(Token("NumDot", prev, e + 1)) /\ start = e + 1)
        /\ (e < Len(source) /\ source[e + 1] = CH_PAREN) =>
              (ret = Some(Token("NumParen", prev, e + 1)) /\ start = e + 1)

C7_Witness ==
    /\ calls >= 1 /\ ret # None
    /\ ret[1].kind = "NumParen"
    /\ ret[1].end - ret[1].start >= 3

\* C8 (end of input): for a tokenizer constructed at an offset into the
\* source, when the input ends in an accumulating state the pending token
\* ends at len(source); no token ends past len(source) and the cursor never
\* exceeds len(source).
C8_EndOfInput ==
    ULeq(start0, Len(source)) =>
        /\ InputEndedAccumulating => (ret # None /\ ret[1].end = Len(source))
        /\ \A i \in 1 .. Len(tokens) : ULeq(tokens[i].end, Len(source))
        /\ ULeq(start, Len(source))

\* C9: next() returns end-of-sequence only when the cursor has reached
\* len(source).
C9_NeverGivesUpEarly ==
    (calls >= 1 /\ ~panicked /\ ret = None) => ULeq(Len(source), start)

\* C10: no Plaintext token holds a space, tab or newline, and each ends just
\* before the first such character after its start, or at end of input.
C10_PlaintextExcludesTerminator ==
    \A i \in 1 .. Len(tokens) :
        tokens[i].kind = "Plaintext" =>
            /\ \A j \in tokens[i].start .. tokens[i].end - 1 :
                  j < Len(source) =>
                      source[j + 1] \notin (WHITESPACE_CHARS \cup {CH_NEWLINE})
            /\ tokens[i].end = PlaintextEnd(source, tokens[i].start)


\* A tokenizer constructed at an offset into the source never panics.
NoPanicWithinSource == ULeq(start0, Len(source)) => ~panicked

\* C11 (no empty token): every token returned has start < end, a call that
\* returns a token moves the cursor forward, and a call made with no
\* character left that returns at all returns end-of-sequence and leaves the
\* cursor in place; a tokenizer constructed at an offset into the source
\* always returns.
C11_NoEmptyToken ==
    /\ \A i \in 1 .. Len(tokens) : ULess(tokens[i].start, tokens[i].end)
    /\ (calls >= 1 /\ ret # None) =>
          (ULess(prev, start) /\ ULess(ret[1].start, ret[1].end))
    /\ (calls >= 1 /\ ~panicked /\ ULeq(Len(source), prev)) =>
          (ret = None /\ start = prev)
    /\ NoPanicWithinSource

C11_Witness ==
    /\ ended /\ ret = None /\ prev = Len(source)
    /\ Len(tokens) >= 2
    /\ tokens[Len(tokens)].end = Len(source)


\* C12 (restartable, deterministic): the tokens the running instance has
\* returned are those a fresh instance constructed at the same start offset
\* returns (in every outcome of its scan), and once the scan has ended, a
\* fresh instance constructed at the end offset of token i returns exactly
\* tokens i+1, i+2, ... of the scan and then end-of-sequence.
C12_Restartable ==
    /\ calls >= 1 =>
          \A fresh \in ScanFrom(source, start0) :
              /\ Len(tokens) <= Len(fresh.tokens)
              /\ tokens = SubSeq(fresh.tokens, 1, Len(tokens))
              /\ (ended /\ ~fresh.panic) => tokens = fresh.tokens
    /\ ended =>
          \A i \in 1 .. Len(tokens) :
              ScanFrom(source, tokens[i].end) =
                  { [tokens |-> SubSeq(tokens, i + 1, Len(tokens)), panic |-> FALSE] }

C12_Witness ==
    /\ ended /\ start0 > 0 /\ Len(tokens) >= 3
    /\ tokens[2].kind # tokens[3].kind
    /\ ScanFrom(source, tokens[1].end) =
          { [tokens |-> <<tokens[2], tokens[3]>>, panic |-> FALSE] }


\* The number of characters from offset off to the end of the source.
Remaining(off) == IF ULeq(off, Len(source)) THEN Len(source) - off ELSE 0

C13_StepsBound == calls >= 1 => steps <= Remaining(prev) + 2
C13_CallsBound == calls <= Remaining(start0) + 1

\* C13 (termination): each next() call ends after at most (remaining
\* characters + 2) loop iterations, and the calls made up to and including
\* the one that returns end-of-sequence number at most (remaining
\* characters + 1), so repeated calls reach end-of-sequence; every call of a
\* tokenizer constructed at an offset into the source ends by returning.
C13_Termination ==
    /\ C13_StepsBound
    /\ C13_CallsBound
    /\ ULeq(start0, Len(source)) => (~panicked /\ (calls >= 1 => steps >= 1))

C13_Witness ==
    /\ ended /\ calls >= 3
    /\ \E i \in 1 .. Len(tokens) : tokens[i].end - tokens[i].start >= 2


\* C14: for lookahead whose first slice has start <= end, open returns
\* (without panicking) a node if and only if the first slot is a Hash token
\* of run length at most 6 and the second a Whitespace token, whatever the
\* third slot holds; the parent node is left as it was.
C14_OpenMatchesOneShape ==
    (la # <<>> /\ (la[1] = None \/ ULeq(la[1][1].start, la[1][1].end))) =>
        LET a == la[1]
            b == la[2]
        IN /\ ~panicked
           /\ (link # None) <=>
                 (/\ a # None /\ a[1].kind = "Hash"
                  /\ ULeq(WrappingSub(a[1].end, a[1].start), 6)
                  /\ b # None /\ b[1].kind = "Whitespace")
           /\ parent = ParentNode

C14_Witness ==
    /\ la # <<>> /\ link # None
    /\ la[1][1].end - la[1][1].start = 6
    /\ la[3] = None

\* C15 (heading level domain): for lookahead whose first slice has
\* start <= end, every node open returns is a Heading(level) with
\* 1 <= level <= 6, level the Hash run length, starting at the Hash token's
\* start, with its end offset unset.
C15_HeadingLevelDomain ==
    (link # None /\ ULeq(la[1][1].start, la[1][1].end)) =>
        LET n == link[1].node
            a == la[1][1]
        IN /\ n.kind.name = "Heading"
           /\ 1 <= n.kind.level /\ n.kind.level <= 6
           /\ n.kind.level = a.end - a.start
           /\ n.start = a.start
           /\ n.end = None


\* The offset just past the maximal run of '#' characters that starts at i.
RECURSIVE HashRunEnd(_, _)
HashRunEnd(src, i) ==
    IF i < Len(src) /\ src[i + 1] = CH_HASH
    THEN HashRunEnd(src, i + 1)
    ELSE i

\* C16 (hash runs are merged): a call that starts at '#' returns one Hash
\* token over the whole maximal run of '#', of any length, and leaves the
\* cursor at its end; no two consecutive tokens are both Hash.
C16_HashRunsMerged ==
    /\ (calls >= 1 /\ ULess(prev, Len(source)) /\ source[prev + 1] = CH_HASH) =>
          LET e == HashRunEnd(source, prev) IN
          ret = Some(Token("Hash", prev, e)) /\ start = e
    /\ \A i \in 1 .. Len(tokens) - 1 :
          ~(tokens[i].kind = "Hash" /\ tokens[i + 1].kind = "Hash")

C16_Witness ==
    /\ calls >= 1 /\ ret # None
    /\ ret[1].kind = "Hash"
    /\ ret[1].end - ret[1].start > 6
    /\ ret[1].end < Len(source)


\* C17 (whitespace tokens are maximal runs): in a scan from offset 0 every
\* Whitespace token holds only spaces and tabs, and neither the character
\* just after its end nor the one just before its start is a space or tab.
C17_WhitespaceMaximal ==
    start0 = 0 =>
        \A i \in 1 .. Len(tokens) :
            tokens[i].kind = "Whitespace" =>
                /\ \A j \in tokens[i].start .. tokens[i].end - 1 :
                      j < Len(source) /\ source[j + 1] \in WHITESPACE_CHARS
                /\ tokens[i].end < Len(source) =>
                      source[tokens[i].end + 1] \notin WHITESPACE_CHARS
                /\ tokens[i].start > 0 =>
                      source[tokens[i].start] \notin WHITESPACE_CHARS

\* C18 (digits followed by a letter merge): a call that starts at a digit
\* whose digit run is followed by a character other than a digit, '.', ')',
\* space, tab or newline returns one Plaintext token from the first digit to
\* the next space, tab, newline or end of input, and leaves the cursor there.
C18_DigitsMergeIntoPlaintext ==
    (calls >= 1 /\ ULess(prev, Len(source)) /\ source[prev + 1] \in NUMBER_CHARS) =>
        LET e == DigitRunEnd(source, prev) IN
        (e < Len(source) /\ source[e + 1] \notin
             ({CH_DOT, CH_PAREN, CH_NEWLINE} \cup WHITESPACE_CHARS)) =>
            /\ ret = Some(Token("Plaintext", prev, PlaintextEnd(source, e)))
            /\ start = PlaintextEnd(source, e)

\* The single-character markers and the variants they close as.
SingleMarkers ==
    { <<CH_DASH, "Dash">>, <<CH_ASTERISK, "Asterisk">>, <<CH_PLUS, "Plus">>,
      <<CH_NEWLINE, "Newline">>, <<CH_RIGHTCARET, "RightCaret">> }

\* C19 (single-character markers are never merged): a call that starts at
\* '-', '*', '+', newline or '>' returns the Dash, Asterisk, Plus, Newline or
\* RightCaret token of length exactly 1 and moves the cursor by exactly 1.
C19_SingleMarkers ==
    \A m \in SingleMarkers :
        (calls >= 1 /\ ULess(prev, Len(source)) /\ source[prev + 1] = m[1]) =>
            (ret = Some(Token(m[2], prev, prev + 1)) /\ start = prev + 1)

C19_Witness ==
    /\ start0 = 0
    /\ source = <<CH_PLUS, CH_PLUS, CH_PLUS>>
    /\ tokens = << Token("Plus", 0, 1), Token("Plus", 1, 2), Token("Plus", 2, 3) >>

\* C20 (end offset set exactly once): once a heading node's end offset is
\* set, no later step changes it.
C20_EndSetOnce ==
    [][(node # None /\ node[1].end # None) =>
          (node' # None /\ node'[1].end = node[1].end)]_vars

====
